---- MODULE Spec2Model ----
(***************************************************************************)
(* PageAnnotationView (src/src/components/page-annotation-view.ts): the    *)
(* per-page annotation overlay.  One overlay instance, its host, the       *)
(* document service's bus and the annotation entities of the page.         *)
(* Asynchronous code is cut at its await points: every action is one       *)
(* synchronous run of the code between two suspension points.  The         *)
(* collaborators act as their interfaces say: getPageAnnotationsAsync      *)
(* gives a list, gives nothing or rejects; renderAsync gives a render      *)
(* result or null.                                                         *)
(***************************************************************************)
EXTENDS Naturals, Sequences, FiniteSets

(* ---------------------------------------------------------------- bounds *)

\* number of annotation entities of the page
NumAnnots == 2
\* number of appendAsync calls that get past the destroyed check
MaxAppends == 2

Annots == 1..NumAnnots
Hosts == {"host"}
NoParent == "none"

\* the value of an entity's callback slot: unset, or a closure of this overlay
Null == "null"
Installed == "overlay"

VARIABLES
  destroyed,         \* this._destroyed
  containerRef,      \* TRUE while this._container holds the div, FALSE once null
  parent,            \* the node the container div is a child of, or NoParent
  containerChildren, \* children of the container div, in DOM order
  svgChildren,       \* children of the svg surface, in DOM order
  rendered,          \* this._rendered
  slots,             \* per entity: $onPointerDownAction / Enter / Leave
  lastRenderResult,  \* per entity: whether lastRenderResult holds a result
  subscribed,        \* whether onAnnotationSelectionChange listens on the bus
  pc,                \* where the one appendAsync call stands
  passResult,        \* what the render pass of that call gave
  tasks,             \* processAnnotation calls awaiting renderAsync
  passNo,            \* number of render passes started
  touchAction,       \* this._container.style.touchAction
  ctor,              \* the constructor call: its arguments and how it ended
  fetched,           \* history: the list the latest fetch delivered
  log                \* history: what the current render pass did, per entity

vars == <<destroyed, containerRef, parent, containerChildren, svgChildren,
          rendered, slots, lastRenderResult, subscribed, pc, passResult,
          tasks, passNo, touchAction, ctor, fetched, log>>

(* ------------------------------------------------------------- DOM nodes *)

SvgNode == <<"svg", 0>>
Controls(a) == <<"controls", a>>
Content(a) == <<"content", a>>

\* a slip of lines 125-126 and 136: prepend for append
DomPrepend(children, node) ==
  <<node>> \o SelectSeq(children, LAMBDA n : n # node)

\* Node.append / ParentNode.append of one node: a node that is already a
\* child is moved to the end
DomAppend(children, node) ==
  Append(SelectSeq(children, LAMBDA n : n # node), node)

\* a slip of lines 141-142: the children stay
ClearedKeeps(children) == children

\* lines 141-142: innerHTML = "" leaves the surface without children
Cleared(children) == <<>>

NoSlots == [down |-> Null, enter |-> Null, leave |-> Null]
OwnSlots == [down |-> Installed, enter |-> Installed, leave |-> Installed]

(* ------------------------------------------------- the code's decisions *)

\* a slip of line 102: the deleted entries are not filtered out
FilteredNone(list, del) == list

\* line 102: .filter(x => !x.deleted)
Filtered(list, del) == SelectSeq(list, LAMBDA a : a \notin del)

\* a slip of line 123: the destroyed flag is not consulted
ShouldAppendUnguarded(result, d) == result

\* line 123: if (renderResult && !this._destroyed)
ShouldAppend(result, d) == result /\ ~d

\* lines 132-137: the value the render pass returns after the join
PassReturn(d) == IF d THEN "false" ELSE "true"

\* a slip of line 85: the test of the pass's result is inverted
RollsBackOnSuccess(res) == res = "true"

\* line 85: if (!renderResult) roll back, else subscribe
RollsBack(res) == res = "false"

\* lines 68, 86: this._container?.remove()
Detached(cref, p) == IF cref THEN NoParent ELSE p

\* a slip of lines 58-62: only the pointer-down slot is cleared
ClearSlotsDownOnly(s, r) ==
  [a \in Annots |-> IF a \in r THEN [s[a] EXCEPT !.down = Null] ELSE s[a]]

\* lines 58-62: the slots of every tracked entity are set to null
ClearSlots(s, r) == [a \in Annots |-> IF a \in r THEN NoSlots ELSE s[a]]

\* a slip of line 107: the tracked set is not consulted
IsNewAlways(r, a) == TRUE

\* line 107: if (!this._rendered.has(annotation))
IsNew(r, a) == a \notin r

\* lines 109-117: the three callbacks written on an entity
InstallSlots(s, a) == [s EXCEPT ![a] = OwnSlots]

(* ------------------------------------------------------ processAnnotation *)

\* the history of one appendAsync call: the entities its pass processed, wrote
\* callbacks on, called renderAsync on, got a render result for (fresh or
\* cached), appended the fragments of and newly tracked; and whether
\* remove() ran while the call was in flight
EmptyLog == [processed |-> {}, installed |-> {}, invoked |-> {},
             yielded |-> {}, appended |-> {}, tracked |-> {},
             removed |-> FALSE]

\* lines 123-127 on the working state st of the overlay, for entity a:
\* track it and append its two fragments
AppendResult(st, a) ==
  [st EXCEPT !.rendered = @ \cup {a},
             !.svg = DomAppend(@, Controls(a)),
             !.cont = DomAppend(@, Content(a)),
             !.log = [@ EXCEPT !.appended = @ \cup {a},
                               !.tracked = @ \cup ({a} \ st.rendered)]]

\* lines 105-121: processAnnotation up to its await (or, with a cached
\* result, to its end: no await is reached)
ProcessStart(st, a) ==
  IF IsNew(st.rendered, a)
  THEN [st EXCEPT !.slots = InstallSlots(@, a),
                  !.tasks = @ \cup {a},
                  !.log = [@ EXCEPT !.processed = @ \cup {a},
                                    !.installed = @ \cup {a},
                                    !.invoked = @ \cup {a}]]
  ELSE IF st.cache[a]
  THEN LET st1 == [st EXCEPT !.log = [@ EXCEPT !.processed = @ \cup {a},
                                               !.yielded = @ \cup {a}]]
       IN  IF ShouldAppend(TRUE, st.destroyed)
           THEN AppendResult(st1, a)
           ELSE st1
  ELSE [st EXCEPT !.tasks = @ \cup {a},
                  !.log = [@ EXCEPT !.processed = @ \cup {a},
                                    !.invoked = @ \cup {a}]]

\* line 130: annotations.map(x => processAnnotation(x)), in list order
RECURSIVE ProcessAll(_, _)
ProcessAll(st, list) ==
  IF list = <<>> THEN st
  ELSE ProcessAll(ProcessStart(st, Head(list)), Tail(list))

\* the overlay's state as the working record of the operators above
Work ==
  [rendered |-> rendered, slots |-> slots, svg |-> svgChildren,
   cont |-> containerChildren, tasks |-> tasks, log |-> log,
   cache |-> lastRenderResult, destroyed |-> destroyed]

(* ------------------------------------------------------------ the inputs *)

\* the arguments of the constructor; TRUE is a supplied argument, FALSE a
\* missing one (undefined or null)
CtorArgs == [docService : BOOLEAN, pageInfo : BOOLEAN, pageDimensions : BOOLEAN]
AllSupplied == [docService |-> TRUE, pageInfo |-> TRUE, pageDimensions |-> TRUE]

\* a slip of line 26: the page dimensions are not looked at
ArgsMissingNoDimensions(args) == ~args.docService \/ ~args.pageInfo

\* line 26: if (!docService || !pageInfo || !pageDimensions)
ArgsMissing(args) ==
  ~args.docService \/ ~args.pageInfo \/ ~args.pageDimensions

\* the change notifications of the bus: e.detail.type, and e.detail.annotations
\* (which may be absent)
EventTypes == {"select", "focus"}
Events ==
  {[type |-> t, present |-> TRUE, annotations |-> S] :
     t \in EventTypes, S \in SUBSET Annots}
  \cup {[type |-> t, present |-> FALSE, annotations |-> {}] : t \in EventTypes}

\* line 146: if (!this._destroyed && e.detail.type === "select")
Handles(d, e) == ~d /\ e.type = "select"

\* a slip of line 148: the length of the array is not looked at
SuppressesWhenPresent(e) == e.present

\* line 148: if (e.detail.annotations?.length)
Suppresses(e) == e.present /\ Cardinality(e.annotations) > 0

\* the entities of S as a list, in the page's order
RECURSIVE ListOf(_)
ListOf(S) ==
  IF S = {} THEN <<>>
  ELSE LET a == CHOOSE x \in S : \A y \in S : x <= y
       IN  <<a>> \o ListOf(S \ {a})

Range(l) == {l[i] : i \in DOMAIN l}

\* the lists a fetch can deliver: any of the page's entities, each once
FetchLists == {ListOf(S) : S \in SUBSET Annots}

\* what getPageAnnotationsAsync gives: a list whose entries carry their
\* deleted flag, nothing at all, or a rejection
FetchOutcomes ==
  UNION {{[kind |-> "list", list |-> l, deleted |-> d] :
            d \in SUBSET Range(l)} : l \in FetchLists}
  \cup {[kind |-> "nothing", list |-> <<>>, deleted |-> {}],
        [kind |-> "throws", list |-> <<>>, deleted |-> {}]}

\* what an entity's renderAsync gives: a render result, or null
RenderOutcomes == {"result", "null"}

NoFetch == [kind |-> "none", list |-> <<>>, deleted |-> {}]

Settled == pc \in {"idle", "done", "threw"}

(* ----------------------------------------------------------------- Init *)

\* the state after the constructor, lines 25-49
Init ==
  /\ destroyed = FALSE
  /\ containerRef = TRUE
  /\ parent = NoParent
  /\ containerChildren = <<>>
  /\ svgChildren = <<>>
  /\ rendered = {}
  /\ slots = [a \in Annots |-> NoSlots]
  /\ lastRenderResult = [a \in Annots |-> FALSE]
  /\ subscribed = FALSE
  /\ pc = "idle"
  /\ passResult = "none"
  /\ tasks = {}
  /\ passNo = 0
  /\ touchAction = ""
  /\ ctor = [state |-> "ok", args |-> AllSupplied]
  /\ fetched = NoFetch
  /\ log = EmptyLog

\* no call in flight and no per-annotation task left running
AllSettled == Settled /\ tasks = {}

(* -------------------------------------------------------------- actions *)

\* lines 67-70
remove ==
  /\ parent' = Detached(containerRef, parent)
  /\ subscribed' = FALSE
  /\ log' = [log EXCEPT !.removed = @ \/ ~Settled]
  /\ UNCHANGED <<destroyed, containerRef, containerChildren, svgChildren,
                 rendered, slots, lastRenderResult, pc, passResult, tasks,
                 passNo, fetched>>
  /\ UNCHANGED <<touchAction, ctor>>

\* lines 52-64
destroy ==
  /\ destroyed' = TRUE
  /\ parent' = Detached(containerRef, parent)
  /\ subscribed' = FALSE
  /\ containerRef' = FALSE
  /\ slots' = ClearSlots(slots, rendered)
  /\ rendered' = {}
  /\ log' = [log EXCEPT !.removed = @ \/ ~Settled]
  /\ UNCHANGED <<containerChildren, svgChildren, lastRenderResult, pc,
                 passResult, tasks, passNo, fetched>>
  /\ UNCHANGED <<touchAction, ctor>>

\* lines 77-84 and 93-101: appendAsync up to the await of the fetch.  The
\* caller starts a call only when the previous one, and every task it
\* started, has settled.
appendAsync(host) ==
  /\ AllSettled
  /\ IF destroyed
     THEN UNCHANGED <<destroyed, containerRef, parent, containerChildren,
                      svgChildren, rendered, slots, lastRenderResult,
                      subscribed, pc, passResult, tasks, passNo, fetched,
                      log>>
     ELSE /\ passNo < MaxAppends
          /\ parent' = host
          /\ containerChildren' = Cleared(containerChildren)
          /\ svgChildren' = Cleared(svgChildren)
          /\ pc' = "fetch"
          /\ passResult' = "none"
          /\ passNo' = passNo + 1
          /\ log' = EmptyLog
          /\ UNCHANGED <<destroyed, containerRef, rendered, slots,
                         lastRenderResult, subscribed, tasks, fetched>>
  /\ UNCHANGED <<touchAction, ctor>>

\* lines 100-130: the fetch settles; the list is filtered and every entry's
\* processAnnotation runs to its await.  A rejected fetch, and the filter
\* call on no list at all (a TypeError), reject the pass and with it
\* appendAsync: lines 132-137 and 85-90 are never run.
fetchSettles(out) ==
  /\ pc = "fetch"
  /\ fetched' = out
  /\ IF out.kind = "list"
     THEN LET st == ProcessAll(Work, Filtered(out.list, out.deleted))
          IN  /\ rendered' = st.rendered
              /\ slots' = st.slots
              /\ svgChildren' = st.svg
              /\ containerChildren' = st.cont
              /\ tasks' = st.tasks
              /\ log' = st.log
              /\ pc' = "renders"
              /\ UNCHANGED passResult
     ELSE /\ pc' = "threw"
          /\ passResult' = "threw"
          /\ UNCHANGED <<rendered, slots, svgChildren, containerChildren,
                         tasks, log>>
  /\ UNCHANGED <<destroyed, containerRef, parent, lastRenderResult,
                 subscribed, passNo>>
  /\ UNCHANGED <<touchAction, ctor>>

\* lines 118-127: the renderAsync of entity a settles and its
\* processAnnotation runs to the end
renderSettles(a, out) ==
  /\ a \in tasks
  /\ tasks' = tasks \ {a}
  /\ lastRenderResult' = [lastRenderResult EXCEPT ![a] = (out = "result")]
  /\ LET st0 == IF out = "result"
                THEN [Work EXCEPT !.log = [@ EXCEPT !.yielded = @ \cup {a}]]
                ELSE Work
         st == IF ShouldAppend(out = "result", destroyed)
               THEN AppendResult(st0, a)
               ELSE st0
     IN  /\ rendered' = st.rendered
         /\ svgChildren' = st.svg
         /\ containerChildren' = st.cont
         /\ log' = st.log
  /\ UNCHANGED <<destroyed, containerRef, parent, slots, subscribed, pc,
                 passResult, passNo, fetched>>
  /\ UNCHANGED <<touchAction, ctor>>

\* lines 130-137: every processAnnotation of the pass has settled
passJoins ==
  /\ pc = "renders"
  /\ tasks = {}
  /\ pc' = "passDone"
  /\ passResult' = PassReturn(destroyed)
  /\ containerChildren' = IF destroyed THEN containerChildren
                          ELSE DomAppend(containerChildren, SvgNode)
  /\ UNCHANGED <<destroyed, containerRef, parent, svgChildren, rendered,
                 slots, lastRenderResult, subscribed, tasks, passNo, fetched,
                 log>>
  /\ UNCHANGED <<touchAction, ctor>>

\* lines 84-90: appendAsync resumes with the pass's result
appendResumes ==
  /\ pc = "passDone"
  /\ pc' = "done"
  /\ IF RollsBack(passResult)
     THEN /\ parent' = Detached(containerRef, parent)
          /\ UNCHANGED subscribed
     ELSE /\ subscribed' = TRUE
          /\ UNCHANGED parent
  /\ UNCHANGED <<destroyed, containerRef, containerChildren, svgChildren,
                 rendered, slots, lastRenderResult, passResult, tasks,
                 passNo, fetched, log>>
  /\ UNCHANGED <<touchAction, ctor>>

\* lines 145-154: the bus delivers a change notification to the handler
onAnnotationSelectionChange(e) ==
  /\ subscribed
  /\ touchAction' = IF Handles(destroyed, e)
                    THEN IF Suppresses(e) THEN "none" ELSE ""
                    ELSE touchAction
  /\ UNCHANGED <<destroyed, containerRef, parent, containerChildren,
                 svgChildren, rendered, slots, lastRenderResult, subscribed,
                 pc, passResult, tasks, passNo, ctor, fetched, log>>

Next ==
  \/ remove
  \/ destroy
  \/ \E h \in Hosts : appendAsync(h)
  \/ \E out \in FetchOutcomes : fetchSettles(out)
  \/ \E a \in Annots, out \in RenderOutcomes : renderSettles(a, out)
  \/ passJoins
  \/ appendResumes
  \/ \E e \in Events : onAnnotationSelectionChange(e)

Spec == Init /\ [][Next]_vars


(* ------------------------------------------------------------------ C1 *)

\* C1: once destroy() has been called, every later call of appendAsync or
\* remove() (the render pass is entered through appendAsync only) is a no-op:
\* the host's children, both surfaces' children, the tracked set, every
\* entity's callback slots and the bus subscription stay as they are, and no
\* fetch or entity render is started.
C1_NoOpAfterDestroy ==
  [][(destroyed /\ (remove \/ \E h \in Hosts : appendAsync(h)))
       => UNCHANGED <<parent, containerChildren, svgChildren, rendered,
                      slots, subscribed, tasks, pc>>]_vars

(* ------------------------------------------------------------------ C2 *)

\* C2: an entity render that settles after destroy() has its result
\* discarded: nothing is appended to either surface and the entity is not
\* added to the tracked set, whichever pending render settles and whatever
\* it gives.
C2_LateRenderDiscarded ==
  [][\A a \in Annots, out \in RenderOutcomes :
       (destroyed /\ renderSettles(a, out))
         => UNCHANGED <<svgChildren, containerChildren, rendered>>]_vars

\* destroy() ran between two render completions of one pass: the earlier
\* result was appended, the later one came with a result and was dropped
C2_Witness ==
  /\ destroyed
  /\ log.appended # {}
  /\ log.yielded \ log.appended # {}

(* ------------------------------------------------------------------ C3 *)

\* C3: once destroy() has run and every in-flight task has settled, no
\* entity's pointer-down, pointer-enter or pointer-leave slot holds a
\* callback of this overlay.
C3_SlotsReleased ==
  (destroyed /\ AllSettled) => \A a \in Annots : slots[a] = NoSlots

(* ------------------------------------------------------------------ C4 *)

\* C4: destroy() on an overlay tracking any set S of entities sets the three
\* slots of every entity of S to null, empties the tracked set, sets the
\* destroyed flag, leaves the container detached from its host and releases
\* the container reference.
C4_DestroyClears ==
  [][destroy => /\ \A a \in rendered : slots'[a] = NoSlots
                /\ rendered' = {}
                /\ destroyed'
                /\ parent' = NoParent
                /\ containerRef' = FALSE]_vars

\* destroy() has run on an overlay that tracked two entities
C4_Witness ==
  /\ destroyed
  /\ Cardinality(log.tracked) >= 2
  /\ \A a \in log.tracked : slots[a] = NoSlots
  /\ rendered = {}
  /\ parent = NoParent

(* ------------------------------------------------------------------ C5 *)

\* C5: when destroy() ran while the fetch was pending, the continuation of
\* the fetch installs no callback on any entity, invokes no entity render,
\* appends nothing to either surface and adds nothing to the tracked set, and
\* the pass returns false.
C5_NoWorkAfterDestroyedFetch ==
  [][/\ \A out \in FetchOutcomes :
          (destroyed /\ out.kind = "list" /\ fetchSettles(out))
            => UNCHANGED <<slots, tasks, svgChildren, containerChildren,
                           rendered>>
     /\ (destroyed /\ passJoins) => passResult' = "false"]_vars

(* ------------------------------------------------------------------ C6 *)

\* C6: once destroy() has run and every task has settled, the overlay's
\* selection handler is not subscribed to the bus, for every point of an
\* in-flight appendAsync at which destroy() ran.
C6_NoListenerAfterDestroy ==
  (destroyed /\ AllSettled) => ~subscribed

(* ------------------------------------------------------------------ C7 *)

\* C7: when getPageAnnotationsAsync yields nothing the pass raises no error,
\* renders no annotation and, on an overlay that is not destroyed, returns
\* true.
C7_NothingIsEmptyList ==
  (fetched.kind = "nothing" /\ pc # "fetch")
    => /\ passResult # "threw"
       /\ log.invoked = {}
       /\ (pc \in {"passDone", "done"} /\ ~destroyed) => passResult = "true"

(* ------------------------------------------------------------------ C8 *)

\* C8: when the fetch throws or yields nothing, appendAsync does not throw:
\* the pass returns false, and once appendAsync has settled the container is
\* detached from the host and the handler is not subscribed.
C8_FetchFailureRollsBack ==
  (fetched.kind \in {"nothing", "throws"} /\ pc \in {"done", "threw"})
    => /\ pc # "threw"
       /\ passResult = "false"
       /\ parent = NoParent
       /\ ~subscribed

(* ------------------------------------------------------------------ C9 *)

EmptyFetch == fetched.kind = "list" /\ fetched.list = <<>>

\* what C9 says of the pass: it returns true, no annotation fragment is in
\* either surface and nothing was added to the tracked set
EmptyPassSucceeds ==
  (passJoins /\ EmptyFetch /\ ~destroyed)
    => /\ passResult' = "true"
       /\ svgChildren' = <<>>
       /\ containerChildren' = <<SvgNode>>
       /\ rendered' = rendered
       /\ log'.tracked = {}

\* C9 as stated: after an empty fetch on an overlay that is not destroyed
\* the pass returns true with both surfaces free of annotation fragments and
\* the tracked set as it was, and appendAsync ends with the container
\* attached to the host and the handler subscribed.
C9_EmptyFetchOriginal ==
  [][/\ EmptyPassSucceeds
     /\ (appendResumes /\ EmptyFetch /\ ~destroyed)
          => (parent' \in Hosts /\ subscribed')]_vars

\* C9 amended: the same, provided remove() was not called while the
\* appendAsync call was in flight.
C9_EmptyFetchSucceeds ==
  [][/\ EmptyPassSucceeds
     /\ (appendResumes /\ EmptyFetch /\ ~destroyed /\ ~log.removed)
          => (parent' \in Hosts /\ subscribed')]_vars

\* an appendAsync call whose fetch gave the empty list has ended, attached
\* and subscribed
C9_Witness ==
  /\ pc = "done"
  /\ EmptyFetch
  /\ ~destroyed
  /\ ~log.removed
  /\ passResult = "true"
  /\ containerChildren = <<SvgNode>>
  /\ parent \in Hosts
  /\ subscribed

(* ----------------------------------------------------------------- C10 *)

\* a render pass has returned true and the overlay is not destroyed
CompletedPass ==
  pc \in {"passDone", "done"} /\ passResult = "true" /\ ~destroyed

\* every processed entry that came with a render result is tracked and has
\* its controls in the svg surface and its content in the container
YieldedAreShown ==
  \A a \in log.processed :
    a \in log.yielded
      => /\ a \in rendered
         /\ \E i \in DOMAIN svgChildren : svgChildren[i] = Controls(a)
         /\ \E i \in DOMAIN containerChildren :
              containerChildren[i] = Content(a)

\* C10 as stated: a completed pass processes exactly the entries that are
\* not deleted; a deleted entry gets no callback, no render and no fragment
\* from the pass and is not tracked; a processed entry whose render gave a
\* result is tracked and shown.
C10_DeletedSkippedOriginal ==
  CompletedPass
    => /\ log.processed = Range(fetched.list) \ fetched.deleted
       /\ \A a \in fetched.deleted :
            /\ a \notin log.installed \cup log.invoked \cup log.appended
            /\ a \notin rendered
       /\ YieldedAreShown

\* C10 amended: the same, with "is not added to the tracked set by the
\* pass" for "is not tracked": an entry that an earlier pass tracked stays
\* tracked after it has been deleted.
C10_DeletedSkipped ==
  CompletedPass
    => /\ log.processed = Range(fetched.list) \ fetched.deleted
       /\ \A a \in fetched.deleted :
            /\ a \notin log.installed \cup log.invoked \cup log.appended
            /\ a \notin log.tracked
       /\ YieldedAreShown

\* a pass over a list with a deleted and a rendered entry has completed
C10_Witness ==
  /\ CompletedPass
  /\ fetched.deleted # {}
  /\ log.yielded # {}
  /\ \A a \in fetched.deleted : slots[a] = NoSlots

(* ----------------------------------------------------------------- C11 *)

\* C11: in a pass that finds an entity already tracked (an earlier pass
\* tracked it and destroy() has not run since), the pass writes none of the
\* entity's three callback slots, and when the entity holds a cached render
\* result its renderAsync is not invoked: the cached result is appended.
C11_TrackedNotReinstalled ==
  [][\A out \in FetchOutcomes :
       (out.kind = "list" /\ fetchSettles(out))
         => \A a \in rendered \cap Range(Filtered(out.list, out.deleted)) :
              /\ slots'[a] = slots[a]
              /\ a \notin log'.installed
              /\ lastRenderResult[a]
                   => /\ a \notin tasks'
                      /\ a \notin log'.invoked
                      /\ a \in log'.appended]_vars

\* a second pass has met an entity the first one tracked: its callbacks are
\* the first pass's, no render was invoked and its cached result is shown
C11_Witness ==
  /\ passNo = 2
  /\ pc = "renders"
  /\ \E a \in rendered :
       /\ a \in log.processed
       /\ a \notin log.installed \cup log.invoked
       /\ a \in log.appended
       /\ slots[a] = OwnSlots
       /\ \E i \in DOMAIN containerChildren : containerChildren[i] = Content(a)

(* ----------------------------------------------------------------- C12 *)

\* C12: whenever a render pass has returned true, the svg surface is the
\* last child of the container, after the content fragment of every entity
\* the pass appended; and while a pass is still fetching or rendering, the
\* svg surface is not a child of the container.
C12_SvgAfterContent ==
  /\ (pc \in {"passDone", "done"} /\ passResult = "true")
       => /\ containerChildren # <<>>
          /\ containerChildren[Len(containerChildren)] = SvgNode
          /\ \A a \in log.appended :
               \E i \in 1..(Len(containerChildren) - 1) :
                 containerChildren[i] = Content(a)
  /\ pc \in {"fetch", "renders"}
       => \A i \in DOMAIN containerChildren : containerChildren[i] # SvgNode

\* a pass that appended the content of two entities has returned true
C12_Witness ==
  /\ pc = "passDone"
  /\ passResult = "true"
  /\ Cardinality(log.appended) >= 2
  /\ Len(containerChildren) >= 3
  /\ containerChildren[Len(containerChildren)] = SvgNode

(* ----------------------------------------------------------------- C13 *)

\* C13: in every state the tracked set is a subset of the entries of the
\* list the most recent fetch delivered, and it is empty once destroy() has
\* run.
C13_TrackedWithinLastFetch ==
  /\ fetched.kind = "list" => rendered \subseteq Range(fetched.list)
  /\ destroyed => rendered = {}

(* ----------------------------------------------------------------- C14 *)

\* C14: a selection notification delivered to an overlay that is not
\* destroyed sets touch-gesture suppression on the container exactly when it
\* carries at least one selected annotation, and restores the default
\* otherwise; a notification of another type, and any notification
\* delivered after destroy(), leaves the container as it is.
C14_SelectionTogglesTouch ==
  [][\A e \in Events :
       onAnnotationSelectionChange(e)
         => IF ~destroyed /\ e.type = "select"
            THEN IF e.present /\ e.annotations # {}
                 THEN touchAction' = "none"
                 ELSE touchAction' = ""
            ELSE touchAction' = touchAction]_vars

\* a selection of one annotation has reached a live, subscribed overlay
C14_Witness ==
  /\ touchAction = "none"
  /\ subscribed
  /\ ~destroyed
  /\ parent \in Hosts

(* ------------------------------------------------- C15: the constructor *)

\* before `new PageAnnotationView(...)`: there is no instance, so its fields
\* have no value; the entities, the bus and the host exist already
InitCtor ==
  /\ ctor = [state |-> "none", args |-> Null]
  /\ destroyed = Null
  /\ containerRef = Null
  /\ parent = Null
  /\ containerChildren = Null
  /\ svgChildren = Null
  /\ rendered = Null
  /\ touchAction = Null
  /\ slots = [a \in Annots |-> NoSlots]
  /\ lastRenderResult = [a \in Annots |-> FALSE]
  /\ subscribed = FALSE
  /\ pc = "idle"
  /\ passResult = "none"
  /\ tasks = {}
  /\ passNo = 0
  /\ fetched = NoFetch
  /\ log = EmptyLog

\* lines 18 and 25-49: the argument check throws, or the fields are set up:
\* an empty tracked set, a container and a vector surface without children
\* and without a host; _destroyed is left undefined, which reads as false
construct(args) ==
  /\ ctor.state = "none"
  /\ IF ArgsMissing(args)
     THEN /\ ctor' = [state |-> "threw", args |-> args]
          /\ UNCHANGED <<destroyed, containerRef, parent, containerChildren,
                         svgChildren, rendered, touchAction>>
     ELSE /\ ctor' = [state |-> "ok", args |-> args]
          /\ destroyed' = FALSE
          /\ containerRef' = TRUE
          /\ parent' = NoParent
          /\ containerChildren' = <<>>
          /\ svgChildren' = <<>>
          /\ rendered' = {}
          /\ touchAction' = ""
  /\ UNCHANGED <<slots, lastRenderResult, subscribed, pc, passResult, tasks,
                 passNo, fetched, log>>

\* the methods are those of a constructed instance
NextCtor ==
  \/ \E args \in CtorArgs : construct(args)
  \/ (ctor.state = "ok" /\ Next)

SpecCtor == InitCtor /\ [][NextCtor]_vars

ConstructorOutcome ==
  /\ (ctor.state = "threw")
       => /\ ~ctor.args.docService \/ ~ctor.args.pageInfo
               \/ ~ctor.args.pageDimensions
          /\ containerRef = Null /\ rendered = Null /\ destroyed = Null
          /\ ~subscribed /\ pc = "idle" /\ fetched = NoFetch
          /\ tasks = {}
  /\ (ctor.state = "ok")
       => (ctor.args.docService /\ ctor.args.pageInfo
             /\ ctor.args.pageDimensions)

\* C15: a construction with the document service, the page descriptor or the
\* page dimensions missing fails and yields no overlay (and only such a
\* construction fails); a successful construction fetches nothing, renders
\* nothing, attaches nothing and subscribes nothing, and starts with an empty
\* tracked set and the overlay not destroyed.
C15_ConstructorContract ==
  /\ []ConstructorOutcome
  /\ [][(ctor.state = "none" /\ ctor'.state = "ok")
          => /\ pc' = "idle" /\ fetched' = NoFetch /\ passNo' = 0
             /\ tasks' = {} /\ log' = EmptyLog
             /\ lastRenderResult' = lastRenderResult /\ slots' = slots
             /\ parent' = NoParent /\ ~subscribed'
             /\ rendered' = {} /\ ~destroyed'
             /\ containerChildren' = <<>> /\ svgChildren' = <<>>]_vars

\* a construction without the page dimensions has thrown
C15_Witness ==
  /\ ctor.state = "threw"
  /\ ctor.args.docService /\ ctor.args.pageInfo /\ ~ctor.args.pageDimensions
  /\ containerRef = Null

(* ----------------------------------------------------------------- C16 *)

\* what a caller can observe of the overlay, the host, the bus and the entities
Observable ==
  <<destroyed, containerRef, parent, containerChildren, svgChildren, rendered,
    slots, lastRenderResult, subscribed, touchAction>>

\* C16: immediately after any remove() the container is not a child of the
\* host and the handler is not subscribed; a remove() in such a state
\* changes nothing (so two calls in a row are as good as one), and neither
\* does a remove() on an overlay that was never appended, whose append was
\* rolled back, or that is already destroyed.
C16_RemoveIdempotent ==
  [][remove
       => /\ parent' = NoParent
          /\ ~subscribed'
          /\ (parent = NoParent /\ ~subscribed) => Observable' = Observable
          /\ passNo = 0 => Observable' = Observable
          /\ (pc = "done" /\ passResult = "false") => Observable' = Observable
          /\ destroyed => Observable' = Observable]_vars

(* ----------------------------------------------------------------- C17 *)

\* C17: the handler becomes subscribed only by a step that follows a render
\* pass which returned true; and once remove() has run during an appendAsync
\* (the overlay not being destroyed), the handler is not subscribed and the
\* container is not attached when that call and all its tasks have settled.
C17_UnsubscribedAfterRemove ==
  [][/\ (~subscribed /\ subscribed') => passResult = "true"
     /\ (log'.removed /\ ~destroyed' /\ AllSettled')
          => (~subscribed' /\ parent' = NoParent)]_vars

(* ------------------------------------------- C18: renders that reject *)

\* lines 118-120 and 130: the renderAsync of entity a rejects, so its
\* processAnnotation rejects.  Promise.all rejects with the first rejection
\* without waiting for the other tasks, and the rejection passes through
\* renderAnnotationsAsync (line 130) and appendAsync (line 84), neither of
\* which catches it; a later rejection is ignored.
renderRejects(a) ==
  /\ a \in tasks
  /\ tasks' = tasks \ {a}
  /\ IF pc = "renders"
     THEN pc' = "threw" /\ passResult' = "threw"
     ELSE UNCHANGED <<pc, passResult>>
  /\ UNCHANGED <<destroyed, containerRef, parent, containerChildren,
                 svgChildren, rendered, slots, lastRenderResult, subscribed,
                 passNo, touchAction, ctor, fetched, log>>

NextRejects ==
  \/ Next
  \/ \E a \in Annots : renderRejects(a)

SpecRejects == Init /\ [][NextRejects]_vars

\* C18: a render pass, and the appendAsync that runs it, ends only when no
\* task of the pass is left running, and once it has ended no fragment is
\* appended to a surface and no entity is added to the tracked set until
\* the next call, whether the renders yield a result, yield nothing or
\* reject.
C18_PassJoinsAllTasks ==
  [][/\ (pc = "renders" /\ pc' # "renders") => tasks' = {}
     /\ pc \in {"passDone", "done", "threw"}
          => /\ rendered' \subseteq rendered
             /\ Len(containerChildren') <= Len(containerChildren)
             /\ Len(svgChildren') <= Len(svgChildren)]_vars

(* ----------------------------------------------------------------- C19 *)

\* C19: the clear step at the start of a render pass leaves both surfaces
\* without children and leaves the tracked set and every entity's callback
\* slots as they were; and the tracked set never loses an entity except by
\* destroy(), which empties it.
C19_ClearKeepsTracked ==
  [][/\ (~destroyed /\ \E h \in Hosts : appendAsync(h))
          => /\ containerChildren' = <<>>
             /\ svgChildren' = <<>>
             /\ rendered' = rendered
             /\ slots' = slots
     /\ rendered \subseteq rendered' \/ (destroy /\ rendered' = {})]_vars

\* the second pass has cleared the surfaces; the entity tracked by the first
\* pass is still tracked and still carries the overlay's callbacks
C19_Witness ==
  /\ passNo = 2
  /\ pc = "fetch"
  /\ containerChildren = <<>>
  /\ svgChildren = <<>>
  /\ \E a \in rendered : slots[a] = OwnSlots

(* ----------------------------------------------------------------- C20 *)

\* an appendAsync is in flight: at the await of the fetch, of the renders,
\* or of the pass
InFlight == pc \in {"fetch", "renders", "passDone"}

\* C20: after a destroy() during an appendAsync in flight (a call on a
\* destroyed overlay never gets in flight) the call does not end with an
\* error, it ends with the container detached from the host, and no step
\* after destroy() touches the released container or the surfaces.
C20_DestroyAbsorbed ==
  [][/\ (destroyed /\ InFlight) => pc' # "threw"
     /\ (destroyed /\ InFlight /\ pc' = "done") => parent' = NoParent
     /\ destroyed => /\ ~containerRef'
                     /\ parent' = NoParent
                     /\ containerChildren' = containerChildren
                     /\ svgChildren' = svgChildren
                     /\ touchAction' = touchAction]_vars

====
